---- MODULE Spec2Model ----
(***************************************************************************)
(* A model of the Smart ATS resume tracker (src/app.py): one Streamlit     *)
(* session made of script runs.  Each widget interaction (upload, remove,  *)
(* edit of the job description, press of the evaluate button) re-runs the  *)
(* script top to bottom; the widgets' values and the st.cache_data cache   *)
(* of evaluate_resume survive between runs.                                *)
(***************************************************************************)
EXTENDS Integers, Sequences, FiniteSets, TLC

VARIABLES
    uploaded_file,  \* st.file_uploader's value: NoFile or [size, content]
    jd,             \* st.text_area's value: the job description
    cache,          \* st.cache_data of evaluate_resume: <<jd, text>> -> response
    modelCalls,     \* number of get_gemini_response invocations so far
    produced,       \* history: what each model invocation was given and returned
    run,            \* what the last script run did and rendered
    fin,            \* input of the pure function under check (function specs)
    fout            \* its result

vars == <<uploaded_file, jd, cache, modelCalls, produced, run, fin, fout>>

----------------------------------------------------------------------------
(* Bounds of the model.                                                    *)

\* The model client is invoked at most this many times in a session.
MaxModelCalls == 2

\* Longest tail of vocabulary words of a text of the format-checker check.
MaxTailWords == 2

\* Largest score of the score-interpretation check beyond the 0..100 range.
MaxExtraScore == 20

----------------------------------------------------------------------------
(* Resume text.  A text is `filler` copies of the word "lorem" followed by *)
(* the words of `words`, separated by blanks; a word is the sequence of    *)
(* its characters.                                                         *)

W_lorem      == <<"l","o","r","e","m">>
W_Skills     == <<"S","k","i","l","l","s">>
W_skill      == <<"s","k","i","l","l">>
W_EXPERIENCE == <<"E","X","P","E","R","I","E","N","C","E",":">>
W_Educations == <<"c","o","-","E","d","u","c","a","t","i","o","n","s">>
W_Python     == <<"P","y","t","h","o","n">>

Filler == W_lorem

Vocabulary == {W_Skills, W_skill, W_EXPERIENCE, W_Educations, W_Python}

\* upper-case letter -> lower-case letter
UpperToLower ==
    ("A" :> "a") @@ ("B" :> "b") @@ ("C" :> "c") @@ ("D" :> "d") @@ ("E" :> "e")
    @@ ("F" :> "f") @@ ("G" :> "g") @@ ("H" :> "h") @@ ("I" :> "i") @@ ("J" :> "j")
    @@ ("K" :> "k") @@ ("L" :> "l") @@ ("M" :> "m") @@ ("N" :> "n") @@ ("O" :> "o")
    @@ ("P" :> "p") @@ ("Q" :> "q") @@ ("R" :> "r") @@ ("S" :> "s") @@ ("T" :> "t")
    @@ ("U" :> "u") @@ ("V" :> "v") @@ ("W" :> "w") @@ ("X" :> "x") @@ ("Y" :> "y")
    @@ ("Z" :> "z")

UpperLetters == DOMAIN UpperToLower

\* str.lower() on one character
LowerChar(c) == IF c \in UpperLetters THEN UpperToLower[c] ELSE c

\* str.lower() on a word
Lower(w) == [i \in 1..Len(w) |-> LowerChar(w[i])]

\* `sub in s` for character sequences
Contains(s, sub) ==
    \E i \in 0..(Len(s) - Len(sub)) :
        \A k \in 1..Len(sub) : s[i + k] = sub[k]

\* len(resume_text.split())
WordCount(text) == text.filler + Len(text.words)

\* resume_text.lower(), word by word
RECURSIVE LowerWords(_)
LowerWords(words) == IF words = <<>> THEN <<>>
                     ELSE <<Lower(Head(words))>> \o LowerWords(Tail(words))

LowerText(text) ==
    IF text.filler > 0 THEN <<Lower(Filler)>> \o LowerWords(text.words)
    ELSE LowerWords(text.words)

\* keyword in lowered: the keywords hold no blank, so an occurrence lies
\* within one word of the text
InText(keyword, lowered) ==
    \E i \in 1..Len(lowered) : Contains(lowered[i], keyword)

MinWords == 200

K_skills     == <<"s","k","i","l","l","s">>
K_experience == <<"e","x","p","e","r","i","e","n","c","e">>
K_education  == <<"e","d","u","c","a","t","i","o","n">>

SectionKeywords == {K_skills, K_experience, K_education}

TooShort == "Your resume text is too short. Consider adding more details."
MissingSections == "Missing standard sections like Skills, Experience, or Education."

\* the first rule of check_resume_format fires
ShortRule_AtMost(text) == WordCount(text) <= MinWords

ShortRule(text) == WordCount(text) < MinWords

\* the second rule of check_resume_format fires
SectionRule(text) ==
    LET lowered == LowerText(text)
    IN  ~ \E keyword \in SectionKeywords : InText(keyword, lowered)

check_resume_format(text) ==
    LET short     == ShortRule(text)
        missing   == SectionRule(text)
        feedback1 == IF short THEN <<TooShort>> ELSE <<>>
        feedback2 == IF missing
                     THEN Append(feedback1, MissingSections) ELSE feedback1
    IN  [ats_friendly |-> ~short /\ ~missing,
         feedback     |-> feedback2]

----------------------------------------------------------------------------
(* circular_progress_bar.  Both call sites pass max_value = 100, and the   *)
(* percentage value / 100 * 100 is computed in IEEE-754 double precision:  *)
(* the quotient is rounded to 53 bits, and so is the product.  The result  *)
(* is the integer `whole` plus `ulps` units in the last place (-1, 0, 1).  *)

\* 2^k mod 100
RECURSIVE Pow2Mod100(_)
Pow2Mod100(k) ==
    IF k = 0 THEN 1
    ELSE IF k % 2 = 0
    THEN LET h == Pow2Mod100(k \div 2) IN (h * h) % 100
    ELSE (2 * Pow2Mod100(k - 1)) % 100

Abs(v) == IF v < 0 THEN -v ELSE v

\* The binary exponent j with 100 <= a * 2^j < 200 (1 <= a < 200): the
\* quotient a / 100 has the 53-bit significand round(a * 2^(52+j) / 100).
RECURSIVE Scale(_, _)
Scale(a, j) == IF a >= 100 THEN [j |-> j, scaled |-> a] ELSE Scale(2 * a, j + 1)

\* 100 * round(a * 2^k / 100) - a * 2^k, with k = 52 + j: the error the
\* rounded quotient carries into the product, in units of 2^-k.
QuotientError(a) ==
    LET k == 52 + Scale(a, 0).j
        m == (a * Pow2Mod100(k)) % 100
    IN  IF m < 50 THEN -m ELSE 100 - m

\* value / 100 * 100 as Python computes it, for |value| < 200
Percentage(value) ==
    LET a == Abs(value)
        r == QuotientError(a)
        s == Scale(a, 0).scaled
        \* the product lies below 2^59 (spacing 64) or not (spacing 128)
        spacing == IF s < 128 \/ (s = 128 /\ r < 0) THEN 64 ELSE 128
        step == IF 2 * Abs(r) > spacing THEN (IF r > 0 THEN 1 ELSE -1) ELSE 0
    IN  IF value = 0 THEN [whole |-> 0, ulps |-> 0]
        ELSE [whole |-> value, ulps |-> IF value < 0 THEN -step ELSE step]

\* percentage <= c and c <= percentage, c an integer
Leq(percentage, c) ==
    percentage.whole < c \/ (percentage.whole = c /\ percentage.ulps <= 0)
Geq(percentage, c) ==
    percentage.whole > c \/ (percentage.whole = c /\ percentage.ulps >= 0)

\* the colour of the gauge's bar
GaugeColour_Below40(percentage) ==
    IF percentage.whole < 40 THEN "darkred"
    ELSE IF Geq(percentage, 41) /\ Leq(percentage, 60) THEN "lightcoral"
    ELSE IF Geq(percentage, 61) /\ Leq(percentage, 80) THEN "orange"
    ELSE IF Geq(percentage, 81) /\ Leq(percentage, 90) THEN "lightgreen"
    ELSE "darkgreen"

GaugeColour(percentage) ==
    IF Leq(percentage, 40) THEN "darkred"
    ELSE IF Geq(percentage, 41) /\ Leq(percentage, 60) THEN "lightcoral"
    ELSE IF Geq(percentage, 61) /\ Leq(percentage, 80) THEN "orange"
    ELSE IF Geq(percentage, 81) /\ Leq(percentage, 90) THEN "lightgreen"
    ELSE "darkgreen"

circular_progress_bar(value, label) ==
    LET percentage == Percentage(value)
    IN  [label  |-> label,
         value  |-> percentage,
         colour |-> GaugeColour(percentage)]

NoGauge == [label |-> "", value |-> [whole |-> 0, ulps |-> 0], colour |-> ""]

----------------------------------------------------------------------------
(* The role status written for a match percentage.                         *)

NoStatus == [status |-> "", salary |-> ""]

RoleStatus(match_percentage) ==
    IF 0 <= match_percentage /\ match_percentage <= 30
    THEN [status |-> "You are not eligible for this job role.",
          salary |-> "2k"]
    ELSE IF 31 <= match_percentage /\ match_percentage <= 60
    THEN [status |-> "Please update your resume for this job role.",
          salary |-> "4k"]
    ELSE IF 61 <= match_percentage /\ match_percentage <= 80
    THEN [status |-> "Good, but you need to update your resume.",
          salary |-> "5k to 6k"]
    ELSE IF 81 <= match_percentage /\ match_percentage <= 100
    THEN [status |-> "Congrats, you are perfect for this job role!",
          salary |-> "6k to 7k"]
    ELSE NoStatus

----------------------------------------------------------------------------
(* Score strings: sequences of characters.                                 *)

Digits == <<"0","1","2","3","4","5","6","7","8","9">>

IsDigit(c) == \E d \in 1..10 : Digits[d] = c
DigitValue(c) == (CHOOSE d \in 1..10 : Digits[d] = c) - 1

\* str(n) for n >= 0
RECURSIVE ToStr(_)
ToStr(n) == IF n < 10 THEN <<Digits[n + 1]>>
            ELSE Append(ToStr(n \div 10), Digits[(n % 10) + 1])

\* s.replace("%", "")
StripPercent_Kept(s) == s

StripPercent(s) == SelectSeq(s, LAMBDA c : c # "%")

\* s.strip(): int() ignores blanks around the literal
RECURSIVE LStrip(_)
LStrip(s) == IF s # <<>> /\ Head(s) = " " THEN LStrip(Tail(s)) ELSE s
RECURSIVE RStrip(_)
RStrip(s) == IF s # <<>> /\ s[Len(s)] = " "
             THEN RStrip(SubSeq(s, 1, Len(s) - 1)) ELSE s
Strip(s) == RStrip(LStrip(s))

\* the digits of a literal, after its optional sign
Unsigned(s) == IF s # <<>> /\ Head(s) \in {"-", "+"} THEN Tail(s) ELSE s

\* int(s) raises no ValueError
IsIntLiteral(s) ==
    LET u == Unsigned(Strip(s))
    IN  u # <<>> /\ \A i \in 1..Len(u) : IsDigit(u[i])

RECURSIVE DigitsValue(_)
DigitsValue(u) == IF u = <<>> THEN 0
                  ELSE 10 * DigitsValue(SubSeq(u, 1, Len(u) - 1))
                       + DigitValue(u[Len(u)])

\* int(s), for an s that is a literal
ParseInt(s) ==
    LET t == Strip(s)
    IN  IF Head(t) = "-" THEN -DigitsValue(Unsigned(t)) ELSE DigitsValue(Unsigned(t))

----------------------------------------------------------------------------
(* Python values.  None, and the raw text get_gemini_response returns: a   *)
(* text is kept as what json.loads makes of it (`doc`): a decode error, a  *)
(* list, a string, or an object with its fields.                           *)

PyNone == [kind |-> "None"]

PyStr(chars)  == [t |-> "str",  chars |-> chars, items |-> <<>>, int |-> 0]
PyInt(n)      == [t |-> "int",  chars |-> <<>>,  items |-> <<>>, int |-> n]
PyList(items) == [t |-> "list", chars |-> <<>>,  items |-> items, int |-> 0]

NoFields == [k \in {} |-> PyStr(<<>>)]

Text(empty, t, fields) ==
    [kind |-> "text", empty |-> empty, doc |-> [t |-> t, fields |-> fields]]

EmptyText     == Text(TRUE,  "error",  NoFields)   \* ""
PlainText     == Text(FALSE, "error",  NoFields)   \* prose, fenced markdown
ListText      == Text(FALSE, "list",   NoFields)   \* ["a", "b"]
Object(fields) == Text(FALSE, "object", fields)

\* bool(response)
Truthy(response) == response # PyNone /\ ~response.empty

\* json.loads(response)
json_loads(response) == response.doc

\* dict.get(key, default)
Get(fields, key, default) ==
    IF key \in DOMAIN fields THEN fields[key] ELSE default

\* ", ".join(items)
RECURSIVE Join(_)
Join(items) ==
    IF Len(items) <= 1 THEN items
    ELSE <<Head(items), ", ">> \o Join(Tail(items))

----------------------------------------------------------------------------
(* The prompt evaluate_resume builds.                                      *)

Prompt(jd_text, resume_text) ==
    IF jd_text # ""
    THEN <<"Job Description: ", jd_text, "\nResume Text: ", resume_text>>
    ELSE <<"Resume Text: ", resume_text>>

----------------------------------------------------------------------------
(* What the submit branch renders for a response of evaluate_resume.       *)

NoResult ==
    [outcome    |-> "none",      \* how the interpretation ended
     exception  |-> "",          \* the unhandled exception of a crash
     variant    |-> "",          \* "jd" or "ats": the variant rendered
     score      |-> 0,
     gauge      |-> NoGauge,
     role       |-> NoStatus,
     items      |-> <<>>,        \* missing keywords / strong points written
     suggestions |-> <<>>,
     conclusion  |-> <<>>]

Crash(result, exception) ==
    [result EXCEPT !.outcome = "crash", !.exception = exception]

\* int(response_data.get(key, "0").replace("%", "")) and what follows it
ScoreOf(fields, key) ==
    LET raw == Get(fields, key, PyStr(<<"0">>))
    IN  IF raw.t # "str" THEN [ok |-> FALSE, exception |-> "AttributeError", int |-> 0]
        ELSE IF ~IsIntLiteral(StripPercent(raw.chars))
        THEN [ok |-> FALSE, exception |-> "ValueError", int |-> 0]
        ELSE [ok |-> TRUE, exception |-> "", int |-> ParseInt(StripPercent(raw.chars))]

\* lines 193-216: the branch of a job description
RenderJD(fields) ==
    LET match_percentage == ScoreOf(fields, "JD Match")
        missing_keywords == Get(fields, "MissingKeywords", PyList(<<>>))
    IN  IF ~match_percentage.ok
        THEN Crash(NoResult, match_percentage.exception)
        ELSE [NoResult EXCEPT
                !.outcome = "rendered",
                !.variant = "jd",
                !.score   = match_percentage.int,
                !.gauge   = circular_progress_bar(match_percentage.int, "JD Match %"),
                !.role    = RoleStatus(match_percentage.int),
                !.items   = IF missing_keywords.items # <<>>
                            THEN Join(missing_keywords.items)
                            ELSE <<"No keywords are missing. Great job!">>]

\* lines 217-233: the branch of no job description
RenderATS(fields) ==
    LET ats_score     == ScoreOf(fields, "ATS Score")
        strong_points == Get(fields, "StrongPoints", PyList(<<>>))
    IN  IF ~ats_score.ok
        THEN Crash(NoResult, ats_score.exception)
        ELSE [NoResult EXCEPT
                !.outcome = "rendered",
                !.variant = "ats",
                !.score   = ats_score.int,
                !.gauge   = circular_progress_bar(ats_score.int, "ATS Score"),
                !.items   = IF strong_points.items # <<>>
                            THEN Join(strong_points.items)
                            ELSE <<"No strong points identified.">>,
                !.suggestions = Get(fields, "Suggestions",
                                    PyStr(<<"No suggestions provided.">>)).chars,
                !.conclusion  = Get(fields, "Conclusion",
                                    PyStr(<<"No conclusion provided.">>)).chars]

\* the variant the submit branch renders: `if jd:` at line 193
UsesJD_ByField(jd_text, fields) == "JD Match" \in DOMAIN fields

UsesJD(jd_text, fields) == jd_text # ""

\* lines 186-238
Interpret(response, jd_text) ==
    IF ~Truthy(response)
    THEN [NoResult EXCEPT !.outcome = "evaluation_failed"]
    ELSE LET response_data == json_loads(response)
         IN  IF response_data.t = "error"
             THEN [NoResult EXCEPT !.outcome = "parse_error"]
             ELSE IF response_data.t # "object"
             THEN Crash(NoResult, "AttributeError")
             ELSE IF UsesJD(jd_text, response_data.fields)
             THEN RenderJD(response_data.fields)
             ELSE RenderATS(response_data.fields)

----------------------------------------------------------------------------
(* Uploaded files.  A file has a size in bytes and a PDF content that the  *)
(* PDF library either reads (to its pages' text) or throws on.             *)

MaxUploadBytes == 2 * 1024 * 1024

PdfFile(size, readable, text) ==
    [size |-> size, readable |-> readable, text |-> text]

ResumeText(filler, words) == [filler |-> filler, words |-> words]

\* 50 words with a section keyword: too short
ShortResume    == ResumeText(49, <<W_EXPERIENCE>>)
\* 300 words, none of them a section keyword
PlainResume    == ResumeText(300, <<>>)
\* exactly 200 words, with "Skills"
SkillsResume   == ResumeText(198, <<W_Skills, W_Python>>)
\* 300 words, with "EXPERIENCE:"
ExperienceResume == ResumeText(299, <<W_EXPERIENCE>>)

SessionTexts == {ShortResume, PlainResume, SkillsResume, ExperienceResume}

\* every text within the limit, an unreadable file, and a readable file
\* one byte over the limit
SessionFiles ==
    {PdfFile(MaxUploadBytes, TRUE, text) : text \in SessionTexts}
    \cup {PdfFile(MaxUploadBytes, FALSE, ResumeText(0, <<>>)),
          PdfFile(MaxUploadBytes + 1, TRUE, SkillsResume)}

SessionJDs == {"", "Data engineer: SQL, Docker"}

\* input_pdf_text: the pages' text, or None when the reader throws
input_pdf_text(file) == IF file.readable THEN file.text ELSE PyNone

----------------------------------------------------------------------------
(* evaluate_resume under st.cache_data: the function's arguments are the   *)
(* key, and the returned value, whatever it is, is stored.                 *)

EmptyCache == [key \in {} |-> PyNone]

CacheKey_TextOnly(jd_text, resume_text) == <<resume_text>>

CacheKey(jd_text, resume_text) == <<jd_text, resume_text>>

\* whether st.cache_data stores a returned value
Cacheable(response) == TRUE

\* `modelOut` is what get_gemini_response returns if it is invoked
evaluate_resume(cache_, jd_text, resume_text, modelOut) ==
    LET key == CacheKey(jd_text, resume_text)
    IN  IF key \in DOMAIN cache_
        THEN [hit |-> TRUE, response |-> cache_[key], cache |-> cache_,
              prompt |-> <<>>]
        ELSE [hit |-> FALSE, response |-> modelOut,
              cache |-> IF Cacheable(modelOut)
                        THEN (key :> modelOut) @@ cache_ ELSE cache_,
              prompt |-> Prompt(jd_text, resume_text)]

----------------------------------------------------------------------------
(* One run of the script.                                                  *)

NoFormat == [ats_friendly |-> FALSE, feedback |-> <<>>]

NoRun ==
    [submit     |-> FALSE,     \* the evaluate button was pressed
     size_error |-> FALSE,     \* "File size exceeds 2MB" is shown
     preview    |-> FALSE,     \* the preview and download button are shown
     trace      |-> <<>>,      \* the functions the submit branch called
     text       |-> PyNone,    \* what input_pdf_text returned
     format     |-> NoFormat,  \* what check_resume_format returned
     cache_hit  |-> FALSE,
     prompt     |-> <<>>,      \* the prompt sent to the model, if any
     response   |-> PyNone,    \* what evaluate_resume returned
     result     |-> NoResult]

\* lines 143-158
UploadSection(file) ==
    [NoRun EXCEPT
        !.size_error = file # PyNone /\ file.size > MaxUploadBytes,
        !.preview    = file # PyNone /\ ~(file.size > MaxUploadBytes)]

\* whether the submit branch goes on to read the file: line 176
Evaluates(file) == file # PyNone

\* `if not ats_friendly:` at line 180
Rejected_OnlyWhenBothRulesFire(format) == Len(format.feedback) > 1

Rejected(format) == ~format.ats_friendly

\* lines 176-183 and 239-240: the submit branch up to the call of
\* evaluate_resume; `shown` is the run so far, `proceeds` whether line 185
\* is reached
BeforeEvaluation(shown, file) ==
    IF ~Evaluates(file)
    THEN [proceeds |-> FALSE,
          run |-> [shown EXCEPT !.submit = TRUE,
                                !.result.outcome = "upload_warning"]]
    ELSE
    LET text == input_pdf_text(file)
        r1   == [shown EXCEPT !.submit = TRUE, !.text = text,
                              !.trace = <<"input_pdf_text", "check_resume_format">>]
    IN  IF text = PyNone
        THEN \* check_resume_format(None): None has no split()
             [proceeds |-> FALSE,
              run |-> [r1 EXCEPT !.result = Crash(NoResult, "AttributeError")]]
        ELSE
        LET format == check_resume_format(text)
        IN  IF Rejected(format)
            THEN [proceeds |-> FALSE,
                  run |-> [r1 EXCEPT !.format = format,
                                     !.result.outcome = "format_rejected"]]
            ELSE [proceeds |-> TRUE, run |-> [r1 EXCEPT !.format = format]]

\* lines 185-238: evaluate_resume and the interpretation of its response
Evaluation(r1, jd_text, cache_, modelOut) ==
    LET e == evaluate_resume(cache_, jd_text, r1.text, modelOut)
    IN  [run |-> [r1 EXCEPT
                    !.trace     = IF e.hit
                                  THEN Append(r1.trace, "evaluate_resume")
                                  ELSE r1.trace \o <<"evaluate_resume",
                                                     "get_gemini_response">>,
                    !.cache_hit = e.hit,
                    !.prompt    = e.prompt,
                    !.response  = e.response,
                    !.result    = Interpret(e.response, jd_text)],
         cache |-> e.cache]

Called(r, name) == \E i \in 1..Len(r.trace) : r.trace[i] = name

----------------------------------------------------------------------------
(* What the model may answer.                                              *)

JDAnswer ==
    Object(("JD Match" :> PyStr(ToStr(75) \o <<"%">>))
           @@ ("MissingKeywords" :> PyList(<<"SQL", "Docker">>)))

ATSAnswer ==
    Object(("ATS Score" :> PyStr(ToStr(82) \o <<"%">>))
           @@ ("StrongPoints" :> PyList(<<"Python">>))
           @@ ("Suggestions" :> PyStr(<<"Add metrics">>))
           @@ ("Conclusion" :> PyStr(<<"Strong candidate">>)))

\* a match score that is a number, not a string, and an ATS score that is
\* no integer once "%" is removed
MalformedAnswer ==
    Object(("JD Match" :> PyInt(75))
           @@ ("ATS Score" :> PyStr(<<"8","2",".","5","%">>)))

SessionAnswers ==
    {EmptyText, PlainText, ListText, JDAnswer, ATSAnswer, MalformedAnswer}

\* get_gemini_response: the text, or None on any exception
ModelOutputs == SessionAnswers \cup {PyNone}

----------------------------------------------------------------------------
(* The session.                                                            *)

Init ==
    /\ uploaded_file = PyNone
    /\ jd = ""
    /\ cache = EmptyCache
    /\ modelCalls = 0
    /\ produced = {}
    /\ run = UploadSection(PyNone)
    /\ fin = PyNone
    /\ fout = PyNone

\* a widget other than the evaluate button changed: the script runs with
\* submit false
Rerun(file) ==
    /\ run' = UploadSection(file)
    /\ UNCHANGED <<cache, modelCalls, produced, fin, fout>>

Upload(file) ==
    /\ file # uploaded_file
    /\ uploaded_file' = file
    /\ UNCHANGED jd
    /\ Rerun(file)

RemoveFile ==
    /\ uploaded_file # PyNone
    /\ uploaded_file' = PyNone
    /\ UNCHANGED jd
    /\ Rerun(PyNone)

EditJD(text) ==
    /\ text # jd
    /\ jd' = text
    /\ UNCHANGED uploaded_file
    /\ Rerun(uploaded_file)

\* the evaluate button is pressed: the script runs with submit true
Submit ==
    LET before == BeforeEvaluation(UploadSection(uploaded_file), uploaded_file)
    IN  IF ~before.proceeds
        THEN /\ run' = before.run
             /\ UNCHANGED <<uploaded_file, jd, cache, modelCalls, produced,
                            fin, fout>>
        ELSE \E modelOut \in ModelOutputs :
             LET s == Evaluation(before.run, jd, cache, modelOut)
                 called == Called(s.run, "get_gemini_response")
             IN  /\ called => modelCalls < MaxModelCalls
                 /\ run' = s.run
                 /\ cache' = s.cache
                 /\ modelCalls' = IF called THEN modelCalls + 1 ELSE modelCalls
                 /\ produced' =
                        IF called
                        THEN produced \cup {[jd |-> jd, text |-> s.run.text,
                                             prompt |-> s.run.prompt,
                                             response |-> s.run.response]}
                        ELSE produced
                 /\ UNCHANGED <<uploaded_file, jd, fin, fout>>

Next ==
    \/ \E file \in SessionFiles : Upload(file)
    \/ RemoveFile
    \/ \E text \in SessionJDs : EditJD(text)
    \/ Submit

Spec == Init /\ [][Next]_vars

----------------------------------------------------------------------------
(* The format checker on its own: every text of the bounded set is checked *)
(* once.                                                                   *)

\* all sequences over S of length at most n
SeqsUpTo(S, n) == UNION {[1..k -> S] : k \in 0..n}

FormatFillers == {0, 49, MinWords - 2, MinWords - 1, MinWords, 300}

FormatTexts ==
    {ResumeText(filler, words) :
        filler \in FormatFillers, words \in SeqsUpTo(Vocabulary, MaxTailWords)}

Idle ==
    /\ uploaded_file = PyNone
    /\ jd = ""
    /\ cache = EmptyCache
    /\ modelCalls = 0
    /\ produced = {}
    /\ run = NoRun

InitFormat == Idle /\ fin \in FormatTexts /\ fout = PyNone

CheckFormat ==
    /\ fout = PyNone
    /\ fout' = check_resume_format(fin)
    /\ UNCHANGED <<uploaded_file, jd, cache, modelCalls, produced, run, fin>>

NextFormat == CheckFormat

SpecFormat == InitFormat /\ [][NextFormat]_vars

----------------------------------------------------------------------------
(* The result interpreter on its own: a well-formed answer with the score  *)
(* n, written str(n) + "%", is interpreted once, with and without a job    *)
(* description, and with the score field present or absent.                *)

ScoreMax == 100

ScoreAnswer(n, jd_text, present) ==
    LET score == PyStr(ToStr(n) \o <<"%">>)
    IN  IF jd_text # ""
        THEN Object((IF present THEN ("JD Match" :> score) ELSE NoFields)
                    @@ ("MissingKeywords" :> PyList(<<"SQL", "Docker">>)))
        ELSE Object((IF present THEN ("ATS Score" :> score) ELSE NoFields)
                    @@ ("StrongPoints" :> PyList(<<"Python">>))
                    @@ ("Suggestions" :> PyStr(<<"Add metrics">>))
                    @@ ("Conclusion" :> PyStr(<<"Strong candidate">>)))

ScoreInputs ==
    [n : 0..(ScoreMax + MaxExtraScore), jd : SessionJDs, present : BOOLEAN]

InitScore == Idle /\ fin \in ScoreInputs /\ fout = PyNone

InterpretScore ==
    /\ fout = PyNone
    /\ fout' = Interpret(ScoreAnswer(fin.n, fin.jd, fin.present), fin.jd)
    /\ UNCHANGED <<uploaded_file, jd, cache, modelCalls, produced, run, fin>>

NextScore == InterpretScore

SpecScore == InitScore /\ [][NextScore]_vars

----------------------------------------------------------------------------
(* What the claims are stated against: the bands and the section words as  *)
(* the specification gives them.                                           *)

\* the words of Vocabulary that hold "skills", "experience" or "education"
\* in some letter case
SectionWords == {W_Skills, W_EXPERIENCE, W_Educations}

HasSectionWord(text) == \E i \in 1..Len(text.words) : text.words[i] \in SectionWords

NumberOfWords(text) == text.filler + Len(text.words)

EligibilityBands ==
    {[lo |-> 0,  hi |-> 30,  status |-> "You are not eligible for this job role.",
      salary |-> "2k"],
     [lo |-> 31, hi |-> 60,  status |-> "Please update your resume for this job role.",
      salary |-> "4k"],
     [lo |-> 61, hi |-> 80,  status |-> "Good, but you need to update your resume.",
      salary |-> "5k to 6k"],
     [lo |-> 81, hi |-> 100, status |-> "Congrats, you are perfect for this job role!",
      salary |-> "6k to 7k"]}

ColourBands ==
    {[lo |-> 0,  hi |-> 40,  colour |-> "darkred"],
     [lo |-> 41, hi |-> 60,  colour |-> "lightcoral"],
     [lo |-> 61, hi |-> 80,  colour |-> "orange"],
     [lo |-> 81, hi |-> 90,  colour |-> "lightgreen"],
     [lo |-> 91, hi |-> 100, colour |-> "darkgreen"]}

BandsOf(bands, n) == {b \in bands : b.lo <= n /\ n <= b.hi}

Submitted == run.submit

ModelInvoked == Called(run, "get_gemini_response")

----------------------------------------------------------------------------
\* C1: in an evaluation action the model client is invoked (and
\* evaluate_resume reached) only after check_resume_format has accepted the
\* extracted text; a text of fewer than 200 words, or with none of the
\* section keywords, ends the action with the format feedback reported and
\* no model call, whatever the job description.
C1_ModelOnlyAfterFormatAccepted ==
    Submitted =>
        /\ (ModelInvoked \/ Called(run, "evaluate_resume")) =>
              /\ run.text # PyNone
              /\ run.format.ats_friendly
              /\ NumberOfWords(run.text) >= 200
              /\ HasSectionWord(run.text)
              /\ \E i, j \in 1..Len(run.trace) :
                    /\ i < j
                    /\ run.trace[i] = "check_resume_format"
                    /\ run.trace[j] = "evaluate_resume"
        /\ (run.text # PyNone
            /\ (NumberOfWords(run.text) < 200 \/ ~HasSectionWord(run.text))) =>
              /\ run.result.outcome = "format_rejected"
              /\ run.format.feedback # <<>>
              /\ ~ModelInvoked
              /\ ~Called(run, "evaluate_resume")

\* a 50-word resume was submitted with a job description and rejected
C1_Witness ==
    /\ Submitted
    /\ jd # ""
    /\ run.text = ShortResume
    /\ run.result.outcome = "format_rejected"
    /\ modelCalls > 0

----------------------------------------------------------------------------
\* a raw response that deviates from the expected shape, for the variant
\* the job description selects
Deviates(response, jd_text) ==
    LET doc == response.doc
        key == IF jd_text # "" THEN "JD Match" ELSE "ATS Score"
    IN  \/ doc.t # "object"
        \/ /\ key \in DOMAIN doc.fields
           /\ \/ doc.fields[key].t # "str"
              \/ ~IsIntLiteral(StripPercent(doc.fields[key].chars))

\* C2: every non-null raw response that deviates from the expected shape
\* ends the evaluation action in the reported parse failure: no unhandled
\* exception, no score or band rendered.
C2_DeviationIsParseFailure ==
    (Submitted /\ Called(run, "evaluate_resume")
     /\ run.response # PyNone /\ Deviates(run.response, jd)) =>
        run.result.outcome = "parse_error"

----------------------------------------------------------------------------
\* C3: when input_pdf_text fails (returns None) the action is aborted with
\* the read error reported: the format checker and the model client are
\* not run on the missing text and no exception is left unhandled.
C3_ExtractionFailureAborts ==
    (Submitted /\ Called(run, "input_pdf_text") /\ run.text = PyNone) =>
        /\ ~Called(run, "check_resume_format")
        /\ ~ModelInvoked
        /\ run.result.outcome # "crash"

----------------------------------------------------------------------------
\* C4: a file of more than 2 MB is never evaluated: no script run of the
\* session calls the text extractor, the format checker or the model
\* client on it.
C4_OversizeNeverEvaluated ==
    (uploaded_file # PyNone /\ uploaded_file.size > 2 * 1024 * 1024) =>
        /\ ~Called(run, "input_pdf_text")
        /\ ~Called(run, "check_resume_format")
        /\ ~ModelInvoked

----------------------------------------------------------------------------
\* C5: for every integer score n in 0..100 the eligibility mapping selects
\* exactly one band and the gauge colour mapping exactly one colour, the
\* ones whose stated range holds n: no n lies in zero or in two bands.
C5_BandsTotalAndDisjoint ==
    (fout # PyNone /\ fout.outcome = "rendered" /\ fout.score \in 0..100) =>
        /\ Cardinality(BandsOf(EligibilityBands, fout.score)) = 1
        /\ Cardinality(BandsOf(ColourBands, fout.score)) = 1
        /\ fout.variant = "jd" =>
              \E b \in BandsOf(EligibilityBands, fout.score) :
                  fout.role = [status |-> b.status, salary |-> b.salary]
        /\ \E b \in BandsOf(ColourBands, fout.score) :
              fout.gauge.colour = b.colour

\* a score on a band boundary was rendered with a job description
C5_Witness ==
    /\ fout # PyNone
    /\ fout.outcome = "rendered"
    /\ fout.variant = "jd"
    /\ fout.score = 40
    /\ fout.gauge.colour = "darkred"
    /\ fout.role.salary = "4k"

----------------------------------------------------------------------------
\* C6: check_resume_format accepts a text iff it has at least 200 words and
\* one of the section keywords in some letter case; "too short" is reported
\* exactly when it has fewer than 200 words, "missing standard sections"
\* exactly when no keyword occurs, and "too short" comes first.
C6_FormatRules ==
    fout # PyNone =>
        LET short   == NumberOfWords(fin) < 200
            missing == ~HasSectionWord(fin)
        IN  /\ fout.ats_friendly <=> (~short /\ ~missing)
            /\ fout.feedback =
                  (IF short THEN <<TooShort>> ELSE <<>>)
                  \o (IF missing THEN <<MissingSections>> ELSE <<>>)

\* a text of exactly 200 words whose only keyword is written "Skills" was
\* accepted
C6_Witness ==
    /\ fout # PyNone
    /\ NumberOfWords(fin) = 200
    /\ \E i \in 1..Len(fin.words) : fin.words[i] = W_Skills
    /\ \A i \in 1..Len(fin.words) : fin.words[i] \in {W_Skills, W_Python, W_skill}
    /\ fout.ats_friendly
    /\ fout.feedback = <<>>

----------------------------------------------------------------------------
\* C7: an evaluation action that renders a result renders exactly one
\* variant, the one the presence of the job description selects, and the
\* response it renders was produced by the prompt of the same template:
\* also on a cache hit, and whatever fields the response holds.
C7_VariantFollowsJobDescription ==
    (Submitted /\ run.result.outcome = "rendered") =>
        /\ run.result.variant = (IF jd # "" THEN "jd" ELSE "ats")
        /\ run.result.gauge.label = (IF jd # "" THEN "JD Match %" ELSE "ATS Score")
        /\ jd # "" => /\ run.result.suggestions = <<>>
                      /\ run.result.conclusion = <<>>
        /\ jd = "" => /\ run.result.role = NoStatus
                      /\ run.result.suggestions # <<>>
                      /\ run.result.conclusion # <<>>
        /\ \E p \in produced :
              /\ p.response = run.response
              /\ p.jd = jd
              /\ p.text = run.text
              /\ p.prompt = (IF jd # ""
                             THEN <<"Job Description: ", jd,
                                    "\nResume Text: ", run.text>>
                             ELSE <<"Resume Text: ", run.text>>)

\* a response without "JD Match" was served from the cache and rendered as
\* the job-description variant
C7_Witness ==
    /\ Submitted
    /\ run.cache_hit
    /\ jd # ""
    /\ run.response = ATSAnswer
    /\ run.result.outcome = "rendered"
    /\ run.result.variant = "jd"
    /\ run.result.score = 0

----------------------------------------------------------------------------
\* C8: evaluate_resume is memoized by the exact (job description, resume
\* text) pair: once a call for a pair has returned, an action with that
\* pair invokes no model call and gets the same raw response; an action
\* with a pair no call has returned for is served no cached response (the
\* model is invoked for it).
C8_CacheKeyedByPair ==
    [][ (run'.submit /\ Called(run', "evaluate_resume")) =>
            IF \E p \in produced : p.jd = jd' /\ p.text = run'.text
            THEN /\ modelCalls' = modelCalls
                 /\ run'.cache_hit
                 /\ \A p \in produced :
                       (p.jd = jd' /\ p.text = run'.text) =>
                           run'.response = p.response
            ELSE /\ modelCalls' = modelCalls + 1
                 /\ ~run'.cache_hit
                 /\ Called(run', "get_gemini_response")
      ]_vars

\* a response was served from the cache while the cache also holds another
\* response for a pair that differs
C8_Witness ==
    /\ Submitted
    /\ run.cache_hit
    /\ run.response # PyNone
    /\ \E key \in DOMAIN cache :
          /\ key # <<jd, run.text>>
          /\ key[2] = run.text
          /\ cache[key] # run.response

----------------------------------------------------------------------------
\* C9: for n in 0..100 a well-formed response whose score field is str(n)
\* followed by "%" is interpreted as n and rendered with the band and the
\* gauge colour of n; an absent score field gives 0; the missing keywords
\* are listed in response order.
C9_ScoreRoundTrip ==
    (fout # PyNone /\ fin.n \in 0..100) =>
        LET n == IF fin.present THEN fin.n ELSE 0
        IN  /\ fout.outcome = "rendered"
            /\ fout.score = n
            /\ fout.gauge.value.whole = n
            /\ \E b \in ColourBands :
                  b.lo <= n /\ n <= b.hi /\ fout.gauge.colour = b.colour
            /\ fin.jd # "" =>
                  /\ \E b \in EligibilityBands :
                        /\ b.lo <= n /\ n <= b.hi
                        /\ fout.role = [status |-> b.status, salary |-> b.salary]
                  /\ fout.items = <<"SQL", ", ", "Docker">>
            /\ (fin.jd # "" /\ n = 75) =>
                  fout.role.status = "Good, but you need to update your resume."
            /\ (fin.jd # "" /\ n = 25) =>
                  fout.role.status = "You are not eligible for this job role."
            /\ (fin.jd = "" /\ n = 82) => fout.gauge.colour = "lightgreen"

\* "82%" without a job description was rendered as ATS score 82
C9_Witness ==
    /\ fout # PyNone
    /\ fin.jd = ""
    /\ fin.present
    /\ fin.n = 82
    /\ fout.variant = "ats"
    /\ fout.score = 82
    /\ fout.gauge.colour = "lightgreen"

----------------------------------------------------------------------------
\* C10: a failure of the model call ends only the action it occurs in: a
\* later action with the same job description and resume text is evaluated
\* afresh, never served the earlier failure from the evaluate_resume cache.
C10_FailureNotServedFromCache ==
    ~(Submitted /\ run.cache_hit /\ run.response = PyNone)

====
